---------------------------- MODULE Spec2Model ----------------------------
(***************************************************************************)
(* Model of owfmodules/logic/logic_analyzer.py: the LogicAnalyzer module   *)
(* of the Octowire framework.  run() connects to the hardware, validates   *)
(* the five options, asks the driver to sniff, and writes one CSV row per  *)
(* returned sample byte.                                                   *)
(*                                                                         *)
(* External collaborators (AModule.connect, octowire Logic.sniff, the      *)
(* file system behind open()/csv.writer) are modelled by the outcomes      *)
(* they can have.  The print() of the elapsed time (line 87) goes to       *)
(* stdout and changes nothing the module reads; it is left out.            *)
(***************************************************************************)
EXTENDS Integers, Sequences, FiniteSets, TLC

(***************************************************************************)
(* Bounds of the model.                                                    *)
(***************************************************************************)
MaxSamples == 3      \* longest sample sequence sniff returns in the run model
MaxPathLen == 5      \* longest output path drawn for the normalization calls

(***************************************************************************)
(* Program constants.                                                      *)
(***************************************************************************)
MaxSampleCount == 131072          \* range(1, 131073), line 61
MaxChannels == 8                  \* range(1, 9), line 67
BitsPerSample == 8                \* range(8), line 51
AllowedSampleRates == {1000000, 5000000, 10000000, 18750000}   \* line 64

(***************************************************************************)
(* Option values.  An option's "Value" is a Python object: the constructor *)
(* leaves it the empty string (lines 28-45), a configured option holds an  *)
(* int.  Type tells the two apart; Value is the int (0 for the string).    *)
(***************************************************************************)
IntV(n) == [Type |-> "int", Value |-> n]
StrV == [Type |-> "str", Value |-> 0]

(***************************************************************************)
(* Strings are sequences of one-character strings.                         *)
(***************************************************************************)
Chars == {".", "/", "c", "C", "s", "S", "v", "V", "x"}

\* str.upper() on one character of Chars
UpperChar(ch) ==
    CASE ch = "c" -> "C"
      [] ch = "s" -> "S"
      [] ch = "v" -> "V"
      [] ch = "x" -> "X"
      [] OTHER -> ch

\* str.lower() on one character of Chars (used by the properties only)
LowerChar(ch) ==
    CASE ch = "C" -> "c"
      [] ch = "S" -> "s"
      [] ch = "V" -> "v"
      [] OTHER -> ch

upper(s) == [i \in 1..Len(s) |-> UpperChar(s[i])]

\* str.rfind(ch), 1-based; 0 when ch does not occur (Python's -1)
RECURSIVE rfindFrom(_, _, _)
rfindFrom(p, ch, i) ==
    IF i = 0 THEN 0
    ELSE IF p[i] = ch THEN i
    ELSE rfindFrom(p, ch, i - 1)

rfind(p, ch) == rfindFrom(p, ch, Len(p))

\* The while loop of genericpath._splitext: TRUE iff some character in
\* p[filenameIndex .. dotIndex-1] is not the extension separator.
RECURSIVE hasNonDot(_, _, _)
hasNonDot(p, filenameIndex, dotIndex) ==
    IF filenameIndex >= dotIndex THEN FALSE
    ELSE IF p[filenameIndex] # "." THEN TRUE
    ELSE hasNonDot(p, filenameIndex + 1, dotIndex)

\* os.path.splitext(p) on a POSIX host: <<root, ext>>
splitext(p) ==
    LET sepIndex == rfind(p, "/")
        dotIndex == rfind(p, ".")
    IN  IF dotIndex > sepIndex /\ hasNonDot(p, sepIndex + 1, dotIndex)
        THEN <<SubSeq(p, 1, dotIndex - 1), SubSeq(p, dotIndex, Len(p))>>
        ELSE <<p, <<>>>>

DotCSV == <<".", "C", "S", "V">>
DotCsv == <<".", "c", "s", "v">>

\* A bug this code could have: the extension is compared case-sensitively.
normalize_case_sensitive(output_file) ==
    IF splitext(output_file)[2] # DotCsv
    THEN output_file \o DotCsv
    ELSE output_file

\* get_samples, lines 79-80: the output file name the run uses
normalize(output_file) ==
    IF upper(splitext(output_file)[2]) # DotCSV
    THEN output_file \o DotCsv
    ELSE output_file

(***************************************************************************)
(* get_bits, lines 48-53: the 8 bits of a sample, least significant first. *)
(***************************************************************************)
RECURSIVE pow2(_)
pow2(i) == IF i = 0 THEN 1 ELSE 2 * pow2(i - 1)

\* (samples >> i) & 1 for a non-negative int
bit(samples, i) == (samples \div pow2(i)) % 2

\* A bug this code could have: most significant bit first.
get_bits_msb_first(samples) ==
    [k \in 1..BitsPerSample |-> bit(samples, BitsPerSample - k)]

get_bits(samples) == [k \in 1..BitsPerSample |-> bit(samples, k - 1)]

\* line 92: self.get_bits(sample_byte)[0:channels]
row_of(sample_byte, channels) == SubSeq(get_bits(sample_byte), 1, channels)

(***************************************************************************)
(* Diagnostics: what logger.handle receives.                               *)
(***************************************************************************)
Diag(sev, msg, args) == [sev |-> sev, msg |-> msg, args |-> args]

(***************************************************************************)
(* params_validator, lines 55-70.  The result says whether the call raised *)
(* (a str compared with 0 on line 56 is a TypeError), what it returned,    *)
(* and the diagnostics it emitted.                                         *)
(***************************************************************************)
ValidatorResult(raised, ret, diag) == [raised |-> raised, ret |-> ret, diag |-> diag]

\* x not in range(lo, hi + 1): a str is never in a range
NotInRange(x, lo, hi) == x.Type # "int" \/ x.Value < lo \/ x.Value > hi

\* A bug this code could have: the upper bound of samples is off by one.
params_validator_off_by_one(trigger, samples, samplerate, channels) ==
    IF trigger.Type # "int"
    THEN ValidatorResult(TRUE, FALSE, <<>>)
    ELSE IF trigger.Value < 0
    THEN ValidatorResult(FALSE, FALSE, <<Diag("ERROR", "trigger", <<>>)>>)
    ELSE IF NotInRange(samples, 1, MaxSampleCount + 1)
    THEN ValidatorResult(FALSE, FALSE, <<Diag("ERROR", "samples", <<>>)>>)
    ELSE IF samplerate.Type # "int" \/ samplerate.Value \notin AllowedSampleRates
    THEN ValidatorResult(FALSE, FALSE, <<Diag("ERROR", "samplerate", <<>>)>>)
    ELSE IF NotInRange(channels, 1, MaxChannels)
    THEN ValidatorResult(FALSE, FALSE, <<Diag("ERROR", "channels", <<>>)>>)
    ELSE ValidatorResult(FALSE, TRUE, <<>>)

\* A bug this code could have: no early return, every violated constraint
\* is reported.
params_validator_reports_all(trigger, samples, samplerate, channels) ==
    IF trigger.Type # "int"
    THEN ValidatorResult(TRUE, FALSE, <<>>)
    ELSE LET d1 == IF trigger.Value < 0
                   THEN <<Diag("ERROR", "trigger", <<>>)>> ELSE <<>>
             d2 == IF NotInRange(samples, 1, MaxSampleCount)
                   THEN <<Diag("ERROR", "samples", <<>>)>> ELSE <<>>
             d3 == IF samplerate.Type # "int" \/ samplerate.Value \notin AllowedSampleRates
                   THEN <<Diag("ERROR", "samplerate", <<>>)>> ELSE <<>>
             d4 == IF NotInRange(channels, 1, MaxChannels)
                   THEN <<Diag("ERROR", "channels", <<>>)>> ELSE <<>>
             all == d1 \o d2 \o d3 \o d4
         IN  ValidatorResult(FALSE, all = <<>>, all)

params_validator(trigger, samples, samplerate, channels) ==
    IF trigger.Type # "int"
    THEN ValidatorResult(TRUE, FALSE, <<>>)
    ELSE IF trigger.Value < 0
    THEN ValidatorResult(FALSE, FALSE, <<Diag("ERROR", "trigger", <<>>)>>)
    ELSE IF NotInRange(samples, 1, MaxSampleCount)
    THEN ValidatorResult(FALSE, FALSE, <<Diag("ERROR", "samples", <<>>)>>)
    ELSE IF samplerate.Type # "int" \/ samplerate.Value \notin AllowedSampleRates
    THEN ValidatorResult(FALSE, FALSE, <<Diag("ERROR", "samplerate", <<>>)>>)
    ELSE IF NotInRange(channels, 1, MaxChannels)
    THEN ValidatorResult(FALSE, FALSE, <<Diag("ERROR", "channels", <<>>)>>)
    ELSE ValidatorResult(FALSE, TRUE, <<>>)


(***************************************************************************)
(* State.                                                                  *)
(*   options      self.options[..]["Value"], the five option values        *)
(*   owf_serial   whether self.owf_serial is set                           *)
(*   pc           the statement run() / get_samples() is at                *)
(*   output_file  the local of get_samples (lines 77-80)                   *)
(*   sniff_calls  how many times sniff was invoked; sniff_args its last    *)
(*                arguments                                                *)
(*   sniffed      what sniff returned (the local samples after line 86)    *)
(*   idx          position of the for loop of line 91 in the sequence      *)
(*   file_open    whether the handle of line 89 is open                    *)
(*   open_calls   how many times open() was called; opened_path its path   *)
(*   fs           the file at the output path: whether it exists, its      *)
(*                complete rows, and the cells of an incomplete last row   *)
(*                (a row is the sequence of its cells; a complete row      *)
(*                ends with the line terminator, partial has none).      *)
(*                While the file is open, rows are the rows handed to the  *)
(*                writer; those still in the buffer of the file object     *)
(*                reach the disk in the same order, on a later write or on *)
(*                close, unless that fails.                                *)
(*   log          the diagnostics passed to logger.handle, in order        *)
(*   err          the exception in flight or handled last ("none" if none) *)
(*   connect_calls, normalize_calls                                        *)
(*                how many times connect() was called and the file name    *)
(*                of lines 79-80 was computed                              *)
(*   call, ret    a direct call of one of the pure functions and its       *)
(*                result (used by SpecCalls only)                          *)
(***************************************************************************)
VARIABLES options, owf_serial, pc, output_file, sniff_calls, sniff_args,
          sniffed, idx, file_open, open_calls, opened_path, fs, log, err,
          connect_calls, normalize_calls, call, ret

vars == <<options, owf_serial, pc, output_file, sniff_calls, sniff_args,
          sniffed, idx, file_open, open_calls, opened_path, fs, log, err,
          connect_calls, normalize_calls, call, ret>>

(***************************************************************************)
(* Inputs of the run model.                                                *)
(***************************************************************************)
TriggerValues == {IntV(-1), IntV(0), IntV(16), StrV}
SamplesValues ==
    {IntV(0), IntV(1), IntV(MaxSampleCount), IntV(MaxSampleCount + 1), StrV}
SamplerateValues == {IntV(1000000), IntV(1000001), IntV(18750000), StrV}
ChannelsValues == {IntV(0), IntV(1), IntV(3), IntV(MaxChannels), IntV(MaxChannels + 1), StrV}
OutputFiles ==
    { <<>>,
      <<"x">>,
      <<"x", ".", "c", "s", "v">>,
      <<"x", ".", "C", "S", "V">>,
      <<"x", ".", "x">> }

\* The bytes the driver returns in the run model
SampleBytes == {0, 5, 255}

\* What sniff can return: a sequence of bytes, or an object that cannot be
\* iterated (the driver is outside this repository).
SniffResults ==
    { [iterable |-> TRUE, data |-> d] :
        d \in UNION { [1..n -> SampleBytes] : n \in 0..MaxSamples } }
    \cup { [iterable |-> FALSE, data |-> <<>>] }

\* The file at the output path before the run: absent, empty, or left by
\* an earlier capture.
InitialFiles ==
    { [exists |-> FALSE, rows |-> <<>>, partial |-> <<>>],
      [exists |-> TRUE, rows |-> <<>>, partial |-> <<>>],
      [exists |-> TRUE, rows |-> << <<1, 1>> >>, partial |-> <<>>] }

NoCall == [fn |-> "none", args |-> <<>>]

Init ==
    /\ options \in [ trigger_gpio_pin : TriggerValues,
                     samples : SamplesValues,
                     samplerate : SamplerateValues,
                     channels : ChannelsValues,
                     output_file : OutputFiles ]
    /\ owf_serial = FALSE
    /\ pc = "run"
    /\ output_file = <<>>
    /\ sniff_calls = 0
    /\ sniff_args = <<>>
    /\ sniffed = [iterable |-> TRUE, data |-> <<>>]
    /\ idx = 1
    /\ file_open = FALSE
    /\ open_calls = 0
    /\ opened_path = <<>>
    /\ fs \in InitialFiles
    /\ log = <<>>
    /\ err = "none"
    /\ connect_calls = 0
    /\ normalize_calls = 0
    /\ call = NoCall
    /\ ret = <<>>

(***************************************************************************)
(* run(), lines 98-112.                                                    *)
(***************************************************************************)

\* line 106: self.connect() (AModule, outside this repository) finds the
\* hardware and sets owf_serial, or does not, or raises.  The call is
\* outside the try block: an exception leaves run().
Connect ==
    /\ pc = "run"
    /\ connect_calls' = connect_calls + 1
    /\ \/ /\ owf_serial' = TRUE
          /\ pc' = "check_serial"
          /\ err' = err
       \/ /\ owf_serial' = FALSE
          /\ pc' = "check_serial"
          /\ err' = err
       \/ /\ owf_serial' = owf_serial
          /\ pc' = "raised"
          /\ err' = "ConnectError"
    /\ UNCHANGED <<normalize_calls, options, output_file, sniff_calls, sniff_args, sniffed, idx,
                   file_open, open_calls, opened_path, fs, log, call, ret>>

\* A bug this code could have: get_samples is entered whether the serial
\* connection is there or not.
CheckSerial_ignored ==
    /\ pc = "check_serial"
    /\ pc' = "get_samples"
    /\ UNCHANGED <<connect_calls, normalize_calls, options, owf_serial,
                   output_file, sniff_calls, sniff_args, sniffed, idx,
                   file_open, open_calls, opened_path, fs, log, err, call, ret>>

\* lines 107-110: return when owf_serial is unset, else enter get_samples
CheckSerial ==
    /\ pc = "check_serial"
    /\ pc' = IF owf_serial THEN "get_samples" ELSE "returned"
    /\ UNCHANGED <<connect_calls, normalize_calls, options, owf_serial, output_file, sniff_calls, sniff_args,
                   sniffed, idx, file_open, open_calls, opened_path, fs, log,
                   err, call, ret>>

\* A bug this code could have: the except clause re-raises.
HandleException_reraise ==
    /\ pc = "except"
    /\ pc' = "raised"
    /\ UNCHANGED <<connect_calls, normalize_calls, options, owf_serial, output_file, sniff_calls, sniff_args,
                   sniffed, idx, file_open, open_calls, opened_path, fs, log,
                   err, call, ret>>

\* A bug this code could have: the except clause swallows the exception.
HandleException_silent ==
    /\ pc = "except"
    /\ pc' = "returned"
    /\ UNCHANGED <<connect_calls, normalize_calls, options, owf_serial, output_file, sniff_calls, sniff_args,
                   sniffed, idx, file_open, open_calls, opened_path, fs, log,
                   err, call, ret>>

\* A bug this code could have: the try block ends before the SUCCESS
\* message, which then follows the ERROR of the handler.
HandleException_resume ==
    /\ pc = "except"
    /\ log' = Append(log, Diag("ERROR", err, <<>>))
    /\ pc' = "success"
    /\ UNCHANGED <<connect_calls, normalize_calls, options, owf_serial,
                   output_file, sniff_calls, sniff_args, sniffed, idx,
                   file_open, open_calls, opened_path, fs, err, call, ret>>

\* lines 111-112: the exception raised in get_samples is logged as ERROR
HandleException ==
    /\ pc = "except"
    /\ log' = Append(log, Diag("ERROR", err, <<>>))
    /\ pc' = "returned"
    /\ UNCHANGED <<connect_calls, normalize_calls, options, owf_serial, output_file, sniff_calls, sniff_args,
                   sniffed, idx, file_open, open_calls, opened_path, fs, err,
                   call, ret>>

(***************************************************************************)
(* get_samples(), lines 72-96.                                             *)
(***************************************************************************)

\* lines 73-80: read the options, normalize the output file name
ReadOptions ==
    /\ pc = "get_samples"
    /\ output_file' = normalize(options.output_file)
    /\ normalize_calls' = normalize_calls + 1
    /\ pc' = "validate"
    /\ UNCHANGED <<connect_calls, options, owf_serial, sniff_calls, sniff_args, sniffed, idx,
                   file_open, open_calls, opened_path, fs, log, err, call, ret>>

\* A bug this code could have: the result of the validator is ignored.
Validate_ignored ==
    /\ pc = "validate"
    /\ LET r == params_validator(options.trigger_gpio_pin, options.samples,
                                 options.samplerate, options.channels)
       IN  IF r.raised
           THEN /\ err' = "TypeError"
                /\ pc' = "except"
                /\ log' = log
           ELSE /\ err' = err
                /\ log' = log \o r.diag
                /\ pc' = "logic_init"
    /\ UNCHANGED <<connect_calls, normalize_calls, options, owf_serial, output_file, sniff_calls, sniff_args,
                   sniffed, idx, file_open, open_calls, opened_path, fs, call, ret>>

\* line 82: validate; on False get_samples returns, and so does run()
Validate ==
    /\ pc = "validate"
    /\ LET r == params_validator(options.trigger_gpio_pin, options.samples,
                                 options.samplerate, options.channels)
       IN  IF r.raised
           THEN /\ err' = "TypeError"
                /\ pc' = "except"
                /\ log' = log
           ELSE /\ err' = err
                /\ log' = log \o r.diag
                /\ pc' = IF r.ret THEN "logic_init" ELSE "returned"
    /\ UNCHANGED <<connect_calls, normalize_calls, options, owf_serial, output_file, sniff_calls, sniff_args,
                   sniffed, idx, file_open, open_calls, opened_path, fs, call, ret>>

\* lines 83-84: build the driver object (it may raise), log the INFO line
LogicInit ==
    /\ pc = "logic_init"
    /\ \/ /\ log' = Append(log, Diag("INFO", "Run the sniffing process...", <<>>))
          /\ pc' = "sniff"
          /\ err' = err
       \/ /\ log' = log
          /\ pc' = "except"
          /\ err' = "LogicError"
    /\ UNCHANGED <<connect_calls, normalize_calls, options, owf_serial, output_file, sniff_calls, sniff_args,
                   sniffed, idx, file_open, open_calls, opened_path, fs, call, ret>>

\* A bug this code could have: samples and samplerate are passed in each
\* other's place.
SniffCall_swapped ==
    /\ pc = "sniff"
    /\ sniff_calls' = sniff_calls + 1
    /\ sniff_args' = <<options.trigger_gpio_pin.Value, options.samplerate.Value,
                       options.samples.Value>>
    /\ pc' = "sniffing"
    /\ UNCHANGED <<connect_calls, normalize_calls, options, owf_serial, output_file,
                   sniffed, idx, file_open, open_calls, opened_path, fs, log, err,
                   call, ret>>

\* line 86, the call: sniff(trigger_gpio_pin, samples, samplerate)
SniffCall ==
    /\ pc = "sniff"
    /\ sniff_calls' = sniff_calls + 1
    /\ sniff_args' = <<options.trigger_gpio_pin.Value, options.samples.Value,
                       options.samplerate.Value>>
    /\ pc' = "sniffing"
    /\ UNCHANGED <<connect_calls, normalize_calls, options, owf_serial, output_file, sniffed, idx, file_open,
                   open_calls, opened_path, fs, log, err, call, ret>>

\* lines 86-88: sniff returns; the second INFO line is logged
SniffReturn ==
    /\ pc = "sniffing"
    /\ \E r \in SniffResults : sniffed' = r
    /\ log' = Append(log, Diag("INFO", "Save results in the CSV file...", <<>>))
    /\ pc' = "open"
    /\ UNCHANGED <<connect_calls, normalize_calls, options, owf_serial, output_file, sniff_calls, sniff_args,
                   idx, file_open, open_calls, opened_path, fs, err, call, ret>>

\* A bug this code could have: a failed sniff is tried again.
SniffRaise_retry ==
    /\ pc = "sniffing"
    /\ sniff_calls < 2
    /\ pc' = "sniff"
    /\ UNCHANGED <<connect_calls, normalize_calls, options, owf_serial, output_file, sniff_calls, sniff_args,
                   sniffed, idx, file_open, open_calls, opened_path, fs, log,
                   err, call, ret>>

\* line 86: sniff raises (timeout, transport failure, disconnection)
SniffRaise ==
    /\ pc = "sniffing"
    /\ err' = "SniffError"
    /\ pc' = "except"
    /\ UNCHANGED <<connect_calls, normalize_calls, options, owf_serial, output_file, sniff_calls, sniff_args,
                   sniffed, idx, file_open, open_calls, opened_path, fs, log,
                   call, ret>>

\* open(output_file, 'w'): the file is created or truncated
open_w(file) == [exists |-> TRUE, rows |-> <<>>, partial |-> <<>>]

\* A bug this code could have: the path is normalized again when the file
\* is opened.
OpenFile_renormalize ==
    /\ pc = "open"
    /\ open_calls' = open_calls + 1
    /\ output_file' = normalize(output_file)
    /\ normalize_calls' = normalize_calls + 1
    /\ opened_path' = output_file'
    /\ \/ /\ fs' = open_w(fs)
          /\ file_open' = TRUE
          /\ idx' = 1
          /\ pc' = "write"
          /\ err' = err
       \/ /\ fs' = fs
          /\ file_open' = file_open
          /\ idx' = idx
          /\ pc' = "except"
          /\ err' = "OSError"
    /\ UNCHANGED <<connect_calls, options, owf_serial, sniff_calls, sniff_args,
                   sniffed, log, call, ret>>

\* line 89-90: open the output file; open() may raise (path not writable)
OpenFile ==
    /\ pc = "open"
    /\ open_calls' = open_calls + 1
    /\ opened_path' = output_file
    /\ \/ /\ fs' = open_w(fs)
          /\ file_open' = TRUE
          /\ idx' = 1
          /\ pc' = "write"
          /\ err' = err
       \/ /\ fs' = fs
          /\ file_open' = file_open
          /\ idx' = idx
          /\ pc' = "except"
          /\ err' = "OSError"
    /\ UNCHANGED <<connect_calls, normalize_calls, options, owf_serial, output_file, sniff_calls, sniff_args,
                   sniffed, log, call, ret>>

\* A bug this code could have: rows are written in reverse order.
writerow_prepend(rows, bits) == <<bits>> \o rows

\* line 93: writer.writerow(bits) adds one row at the end of the file
writerow(rows, bits) == Append(rows, bits)

\* lines 91-93, one iteration: decode the next sample, write its row
WriteRow ==
    /\ pc = "write"
    /\ sniffed.iterable
    /\ idx <= Len(sniffed.data)
    /\ fs' = [fs EXCEPT !.rows =
                writerow(@, row_of(sniffed.data[idx], options.channels.Value))]
    /\ idx' = idx + 1
    /\ UNCHANGED <<connect_calls, normalize_calls, options, owf_serial, pc, output_file, sniff_calls, sniff_args,
                   sniffed, file_open, open_calls, opened_path, log, err, call, ret>>

\* What a write to the disk that fails (disk full, I/O error) can leave of
\* the rows handed to the writer: the first k of them, followed by the
\* first j cells of the next one, without its line terminator.
cuts(file, handed) ==
    { [file EXCEPT !.rows = SubSeq(handed, 1, k),
                   !.partial = SubSeq(handed[k + 1], 1, j)] :
        <<k, j>> \in { kj \in (0..(Len(handed) - 1)) \X (0..MaxChannels) :
                         kj[2] <= Len(handed[kj[1] + 1]) } }

\* line 93, failing: the file after a writerow that raises
failed_write(file, bits) == cuts(file, Append(file.rows, bits))

\* leaving the with block, failing: the file after a close() that raises
\* (the buffered rows could not all be written)
failed_close(file) == {file} \cup cuts(file, file.rows)

\* A bug this code could have: the file is opened without a with statement,
\* so an exception in the loop leaves the handle open.
WriteRaise_leak ==
    /\ pc = "write"
    /\ \/ /\ ~sniffed.iterable
          /\ err' = "TypeError"
          /\ fs' = fs
       \/ /\ sniffed.iterable
          /\ idx <= Len(sniffed.data)
          /\ err' = "OSError"
          /\ fs' \in failed_write(fs, row_of(sniffed.data[idx], options.channels.Value))
    /\ pc' = "except"
    /\ UNCHANGED <<connect_calls, normalize_calls, options, owf_serial, output_file,
                   sniff_calls, sniff_args, sniffed, idx, file_open, open_calls,
                   opened_path, log, call, ret>>

\* A bug this code could have: the handler removes the partial file.
WriteRaise_unlink ==
    /\ pc = "write"
    /\ \/ /\ ~sniffed.iterable
          /\ err' = "TypeError"
       \/ /\ sniffed.iterable
          /\ idx <= Len(sniffed.data)
          /\ err' = "OSError"
    /\ fs' = [exists |-> FALSE, rows |-> <<>>, partial |-> <<>>]
    /\ file_open' = FALSE
    /\ pc' = "except"
    /\ UNCHANGED <<connect_calls, normalize_calls, options, owf_serial, output_file,
                   sniff_calls, sniff_args, sniffed, idx, open_calls, opened_path,
                   log, call, ret>>

\* lines 89-93: an exception inside the with block: iterating what sniff
\* returned raises (line 91), or writing a row raises (line 93) and may
\* leave part of that row in the file.  The with statement closes the file
\* and the exception goes on to run().
WriteRaise ==
    /\ pc = "write"
    /\ \/ /\ ~sniffed.iterable
          /\ err' = "TypeError"
          /\ fs' = fs
       \/ /\ sniffed.iterable
          /\ idx <= Len(sniffed.data)
          /\ err' = "OSError"
          /\ fs' \in failed_write(fs, row_of(sniffed.data[idx], options.channels.Value))
    /\ file_open' = FALSE
    /\ pc' = "except"
    /\ UNCHANGED <<connect_calls, normalize_calls, options, owf_serial, output_file,
                   sniff_calls, sniff_args, sniffed, idx, open_calls, opened_path,
                   log, call, ret>>

\* A bug this code could have: the loop waits for as many samples as were
\* asked for, not for the end of what sniff returned.
CloseFile_awaits_count ==
    /\ pc = "write"
    /\ sniffed.iterable
    /\ idx > options.samples.Value
    /\ file_open' = FALSE
    /\ \/ /\ pc' = "success"
          /\ err' = err
          /\ fs' = fs
       \/ /\ pc' = "except"
          /\ err' = "OSError"
          /\ fs' \in failed_close(fs)
    /\ UNCHANGED <<connect_calls, normalize_calls, options, owf_serial, output_file,
                   sniff_calls, sniff_args, sniffed, idx, open_calls, opened_path,
                   log, call, ret>>

\* line 93 -> 94: the loop is over, the with statement closes the file;
\* close() may raise (the handle is released all the same)
CloseFile ==
    /\ pc = "write"
    /\ sniffed.iterable
    /\ idx > Len(sniffed.data)
    /\ file_open' = FALSE
    /\ \/ /\ pc' = "success"
          /\ err' = err
          /\ fs' = fs
       \/ /\ pc' = "except"
          /\ err' = "OSError"
          /\ fs' \in failed_close(fs)
    /\ UNCHANGED <<connect_calls, normalize_calls, options, owf_serial, output_file,
                   sniff_calls, sniff_args, sniffed, idx, open_calls, opened_path,
                   log, call, ret>>

\* The SUCCESS diagnostic of lines 94-96: format(output_file, samplerate)
SuccessDiag(file, samplerate) ==
    Diag("SUCCESS", "pulseview(.exe) -i {} -I csv:samplerate={}", <<file, samplerate>>)

\* A bug this code could have: the message names the option value, not the
\* file name the capture was written under.
Success_option_path ==
    /\ pc = "success"
    /\ log' = Append(log, SuccessDiag(options.output_file, options.samplerate.Value))
    /\ pc' = "returned"
    /\ UNCHANGED <<connect_calls, normalize_calls, options, owf_serial, output_file, sniff_calls, sniff_args,
                   sniffed, idx, file_open, open_calls, opened_path, fs, err,
                   call, ret>>

\* lines 94-96: the SUCCESS diagnostic; get_samples and run() return
Success ==
    /\ pc = "success"
    /\ log' = Append(log, SuccessDiag(output_file, options.samplerate.Value))
    /\ pc' = "returned"
    /\ UNCHANGED <<connect_calls, normalize_calls, options, owf_serial, output_file, sniff_calls, sniff_args,
                   sniffed, idx, file_open, open_calls, opened_path, fs, err,
                   call, ret>>

Next ==
    \/ Connect
    \/ CheckSerial
    \/ ReadOptions
    \/ Validate
    \/ LogicInit
    \/ SniffCall
    \/ SniffReturn
    \/ SniffRaise
    \/ OpenFile
    \/ WriteRow
    \/ WriteRaise
    \/ CloseFile
    \/ Success
    \/ HandleException

Spec == Init /\ [][Next]_vars

\* run() is one sequential thread: the interpreter executes its next
\* statement whenever there is one, and connect() and sniff are taken to
\* come back to their caller (with a result or with an exception).
\* Whether a run ends does not depend on what the output path held before
\* it nor on the spelling of the path: the runs start without a file, on
\* a path with and a path without the extension.
InitFair ==
    /\ Init
    /\ ~fs.exists
    /\ options.output_file \in {<<"x">>, <<"x", ".", "c", "s", "v">>}

SpecFair == InitFair /\ [][Next]_vars /\ WF_vars(Next)

(***************************************************************************)
(* Direct calls of the pure functions: params_validator on integers around *)
(* every boundary, get_bits and the slice of line 92 on every byte and     *)
(* channel count, the file name normalization on every path over Chars of  *)
(* at most MaxPathLen characters.                                          *)
(***************************************************************************)
TriggerInts == {-2, -1, 0, 1, 15, 16, 17}
SamplesInts ==
    {-1, 0, 1, 2, 4, MaxSampleCount - 1, MaxSampleCount, MaxSampleCount + 1, 200000}
SamplerateInts ==
    {0, 100000, 999999, 1000000, 1000001, 3000000, 4999999, 5000000, 5000001,
     9999999, 10000000, 10000001, 18749999, 18750000, 18750001}
ChannelsInts == {-1, 0, 1, 2, 3, 7, MaxChannels, MaxChannels + 1, 16}

\* The characters the enumerated paths are built from, and some longer paths
PathChars == {".", "/", "c", "C", "s", "v", "x"}
ExamplePaths ==
    { <<"x", ".", "C", "S", "V">>,
      <<"x", ".", "c", "S", "v">>,
      <<"x", ".", "x", ".", "c", "s", "v">>,
      <<"x", ".", "c", "s", "v", ".", "x">>,
      <<"x", ".", "C", "S", "V", "/", "x">>,
      <<"x", "/", ".", "C", "S", "V">>,
      <<"x", "/", "x", ".", "c", "s", "V">> }

Paths == UNION { [1..n -> PathChars] : n \in 0..MaxPathLen } \cup ExamplePaths

ValidatorCalls ==
    { [fn |-> "params_validator", args |-> <<IntV(t), IntV(n), IntV(r), IntV(c)>>] :
        t \in TriggerInts, n \in SamplesInts, r \in SamplerateInts, c \in ChannelsInts }

GetBitsCalls ==
    { [fn |-> "get_bits", args |-> <<b, c>>] : b \in 0..255, c \in 1..MaxChannels }

NormalizeCalls == { [fn |-> "normalize", args |-> <<p>>] : p \in Paths }

InitCalls ==
    /\ options = [ trigger_gpio_pin |-> StrV, samples |-> StrV, samplerate |-> StrV,
                   channels |-> StrV, output_file |-> <<>> ]
    /\ owf_serial = FALSE
    /\ pc = "call"
    /\ output_file = <<>>
    /\ sniff_calls = 0
    /\ sniff_args = <<>>
    /\ sniffed = [iterable |-> TRUE, data |-> <<>>]
    /\ idx = 1
    /\ file_open = FALSE
    /\ open_calls = 0
    /\ opened_path = <<>>
    /\ fs = [exists |-> FALSE, rows |-> <<>>, partial |-> <<>>]
    /\ log = <<>>
    /\ err = "none"
    /\ connect_calls = 0
    /\ normalize_calls = 0
    /\ call \in ValidatorCalls \cup GetBitsCalls \cup NormalizeCalls
    /\ ret = <<>>

\* params_validator(trigger, samples, samplerate, channels)
CallParamsValidator ==
    /\ pc = "call"
    /\ call.fn = "params_validator"
    /\ ret' = <<params_validator(call.args[1], call.args[2], call.args[3], call.args[4])>>
    /\ pc' = "called"
    /\ UNCHANGED <<connect_calls, normalize_calls, options, owf_serial, output_file, sniff_calls, sniff_args,
                   sniffed, idx, file_open, open_calls, opened_path, fs, log,
                   err, call>>

\* self.get_bits(sample_byte)[0:channels]
CallGetBits ==
    /\ pc = "call"
    /\ call.fn = "get_bits"
    /\ ret' = <<row_of(call.args[1], call.args[2])>>
    /\ pc' = "called"
    /\ UNCHANGED <<connect_calls, normalize_calls, options, owf_serial, output_file, sniff_calls, sniff_args,
                   sniffed, idx, file_open, open_calls, opened_path, fs, log,
                   err, call>>

\* the normalization of lines 79-80
CallNormalize ==
    /\ pc = "call"
    /\ call.fn = "normalize"
    /\ ret' = <<normalize(call.args[1])>>
    /\ pc' = "called"
    /\ UNCHANGED <<connect_calls, normalize_calls, options, owf_serial, output_file, sniff_calls, sniff_args,
                   sniffed, idx, file_open, open_calls, opened_path, fs, log,
                   err, call>>

NextCalls == CallParamsValidator \/ CallGetBits \/ CallNormalize

SpecCalls == InitCalls /\ [][NextCalls]_vars

(***************************************************************************)
(* Properties.                                                             *)
(***************************************************************************)

\* The last diagnostic of the run, if there is one
HasDiag == Len(log) > 0
LastDiag == log[Len(log)]
SuccessLogged == \E i \in 1..Len(log) : log[i].sev = "SUCCESS"

\* The domains of the four numeric options, as the option descriptions and
\* the specification state them
InDomain(o) ==
    /\ o.trigger_gpio_pin.Type = "int" /\ o.trigger_gpio_pin.Value >= 0
    /\ o.samples.Type = "int" /\ o.samples.Value \in 1..131072
    /\ o.samplerate.Type = "int"
    /\ o.samplerate.Value \in {1000000, 5000000, 10000000, 18750000}
    /\ o.channels.Type = "int" /\ o.channels.Value \in 1..8

\* Bits 0..c-1 of b, least significant first, written without get_bits
ExpectedRow(b, c) == [i \in 1..c |-> (b \div (2 ^ (i - 1))) % 2]

\* The value of a row read back as a binary number, least significant first
RECURSIVE RowValue(_)
RowValue(row) ==
    IF row = <<>> THEN 0 ELSE row[1] + 2 * RowValue(Tail(row))

(* C1: in a run with a numeric option outside its domain, sniff is never   *)
(* invoked, open() is never called, no handle is open, and the file at the *)
(* output path is neither created nor changed.                             *)
C1_InvalidNeverAcquires ==
    /\ [](~InDomain(options) =>
            /\ sniff_calls = 0
            /\ open_calls = 0
            /\ ~file_open
            /\ pc \notin {"logic_init", "sniff", "sniffing", "open", "write", "success"})
    /\ [][~InDomain(options) => fs' = fs]_vars

C1_Witness ==
    /\ pc = "returned"
    /\ owf_serial
    /\ options.trigger_gpio_pin = IntV(16)
    /\ options.samples = IntV(131073)
    /\ options.samplerate = IntV(1000000)
    /\ options.channels = IntV(8)
    /\ Len(log) = 1
    /\ log[1].sev = "ERROR"

(* C2: on integers, params_validator returns True exactly when             *)
(* trigger >= 0, 1 <= samples <= 131072, samplerate is one of 1000000,     *)
(* 5000000, 10000000, 18750000 and 1 <= channels <= 8; it returns False    *)
(* otherwise, and it does not raise.                                       *)
C2_ValidatorIff ==
    (call.fn = "params_validator" /\ Len(ret) = 1) =>
        LET t == call.args[1].Value
            n == call.args[2].Value
            r == call.args[3].Value
            c == call.args[4].Value
        IN  /\ ~ret[1].raised
            /\ ret[1].ret <=>
                 /\ t >= 0
                 /\ 1 <= n /\ n <= 131072
                 /\ r \in {1000000, 5000000, 10000000, 18750000}
                 /\ 1 <= c /\ c <= 8

C2_Witness ==
    /\ call = [fn |-> "params_validator",
               args |-> <<IntV(16), IntV(131072), IntV(18750000), IntV(8)>>]
    /\ Len(ret) = 1
    /\ ret[1].ret

(* C3: for every byte b and channel count c in 1..8 the row of b has       *)
(* exactly c elements, element i is (b >> i) & 1, so the row read back as  *)
(* a binary number is b mod 2^c; 5 gives 1,0,1 on 3 channels and           *)
(* 1,0,1,0,0,0,0,0 on 8.                                                   *)
C3_RowIsLowBits ==
    (call.fn = "get_bits" /\ Len(ret) = 1) =>
        LET b == call.args[1]
            c == call.args[2]
            row == ret[1]
        IN  /\ Len(row) = c
            /\ row = ExpectedRow(b, c)
            /\ \A i \in 1..c : row[i] \in {0, 1}
            /\ RowValue(row) = b % (2 ^ c)
            /\ (b = 5 /\ c = 3) => row = <<1, 0, 1>>
            /\ (b = 5 /\ c = 8) => row = <<1, 0, 1, 0, 0, 0, 0, 0>>

C3_Witness ==
    /\ call = [fn |-> "get_bits", args |-> <<5, 3>>]
    /\ ret = << <<1, 0, 1>> >>

(* C4: after a run that ended with the SUCCESS diagnostic, the file holds  *)
(* exactly one row per sample sniff returned, row k being the low          *)
(* channels bits of sample k: nothing of an earlier file, nothing          *)
(* reordered, dropped, duplicated or merged.                               *)
RunSucceeded == pc = "returned" /\ HasDiag /\ LastDiag.sev = "SUCCESS"

C4_RowsAreSamplesInOrder ==
    RunSucceeded =>
        /\ fs.exists
        /\ Len(fs.rows) = Len(sniffed.data)
        /\ \A k \in 1..Len(sniffed.data) :
              fs.rows[k] = ExpectedRow(sniffed.data[k], options.channels.Value)

C4_Witness ==
    /\ RunSucceeded
    /\ sniffed.data = <<5, 0, 255>>
    /\ options.channels = IntV(3)
    /\ fs.rows = << <<1, 0, 1>>, <<0, 0, 0>>, <<1, 1, 1>> >>

(* C5: an error raised while validating, building the driver, sniffing,    *)
(* or opening, writing or closing the file never leaves run(): it reaches  *)
(* the except clause, which can always act, and once run() has returned    *)
(* the last diagnostic is the ERROR of that error.                         *)
GetSamplesErrors == {"TypeError", "LogicError", "SniffError", "OSError"}

C5_ErrorsCaught ==
    /\ (err \in GetSamplesErrors) =>
          /\ pc \in {"except", "returned"}
          /\ pc = "returned" => (HasDiag /\ LastDiag = Diag("ERROR", err, <<>>))
    /\ pc = "except" => (err \in GetSamplesErrors /\ ENABLED HandleException)
    /\ pc = "raised" => err \notin GetSamplesErrors

C5_Witness ==
    /\ pc = "returned"
    /\ options.trigger_gpio_pin = StrV
    /\ err = "TypeError"
    /\ log = <<Diag("ERROR", "TypeError", <<>>)>>

(* C6, as stated: every path of run() ends with a clean return after a     *)
(* diagnostic emitted by the module.                                       *)
C6_Original ==
    /\ pc # "raised"
    /\ pc = "returned" => HasDiag

(* C6, amended: when connect() has set owf_serial, run() ends with a clean *)
(* return whose last diagnostic is an ERROR or the SUCCESS; when connect() *)
(* leaves owf_serial unset, run() returns without a diagnostic of its own; *)
(* the only error that leaves run() is one raised by connect() itself.     *)
C6_DiagnosticWhenConnected ==
    /\ (pc = "returned" /\ owf_serial) =>
          (HasDiag /\ LastDiag.sev \in {"ERROR", "SUCCESS"})
    /\ (pc = "returned" /\ ~owf_serial) => log = <<>>
    /\ pc = "raised" => (err = "ConnectError" /\ log = <<>>)

C6_Witness ==
    /\ pc = "returned"
    /\ owf_serial
    /\ err = "LogicError"
    /\ LastDiag.sev = "ERROR"

(* C7: open() is called at most once per run; a handle is open only while  *)
(* the rows are being written, and no handle is open once run() has        *)
(* returned or raised, whether all rows were written, a write failed       *)
(* midway, or iterating the samples failed.                                *)
C7_FileClosedOnExit ==
    /\ open_calls <= 1
    /\ file_open => (pc = "write" /\ open_calls = 1)
    /\ pc \in {"returned", "raised", "except", "success"} => ~file_open

C7_Witness ==
    /\ pc = "returned"
    /\ open_calls = 1
    /\ err = "OSError"
    /\ Len(sniffed.data) = 3
    /\ idx = 2
    /\ Len(fs.rows) = 1
    /\ ~file_open

(* C8: sniff is invoked at most once per run; when it raises, open() is    *)
(* never called, the except clause can act, and run() returns with the     *)
(* ERROR of that error as its last diagnostic and no SUCCESS.              *)
C8_SniffErrorFails ==
    /\ sniff_calls <= 1
    /\ err = "SniffError" =>
          /\ sniff_calls = 1
          /\ open_calls = 0
          /\ ~file_open
          /\ pc \in {"except", "returned"}
          /\ pc = "except" => ENABLED HandleException
          /\ pc = "returned" =>
                /\ LastDiag = Diag("ERROR", "SniffError", <<>>)
                /\ ~SuccessLogged

C8_Witness ==
    /\ pc = "returned"
    /\ err = "SniffError"
    /\ sniff_calls = 1
    /\ Len(log) = 2

(* C9, as stated: the SUCCESS diagnostic comes after the last row and the  *)
(* close, and its two arguments are the output path and the sample rate    *)
(* exactly as the request gave them.                                       *)
C9_Original ==
    \A i \in 1..Len(log) :
        log[i].sev = "SUCCESS" =>
            /\ ~file_open
            /\ Len(fs.rows) = Len(sniffed.data)
            /\ log[i].args = <<options.output_file, options.samplerate.Value>>

(* C9, amended: the SUCCESS diagnostic comes after the last row and the    *)
(* close, and its two arguments are the path the file was opened under     *)
(* (the request's path, or that path followed by .csv) and the sample rate *)
(* of the request.                                                         *)
C9_SuccessAfterWrite ==
    \A i \in 1..Len(log) :
        log[i].sev = "SUCCESS" =>
            /\ i = Len(log)
            /\ pc = "returned"
            /\ ~file_open
            /\ open_calls = 1
            /\ fs.exists
            /\ Len(fs.rows) = Len(sniffed.data)
            /\ log[i].args = <<opened_path, options.samplerate.Value>>
            /\ \/ opened_path = options.output_file
               \/ opened_path = options.output_file \o <<".", "c", "s", "v">>

C9_Witness ==
    /\ SuccessLogged
    /\ options.output_file = <<"x">>
    /\ LastDiag.args = << <<"x", ".", "c", "s", "v">>, 18750000 >>
    /\ Len(fs.rows) = 2

\* The extension of a path as os.path defines it, written without the
\* loops: the part from the last dot on, when that dot lies in the last
\* component and is not one of its leading dots; empty otherwise.
ExtensionOf(p) ==
    LET dots == {i \in 1..Len(p) : p[i] = "."}
        seps == {i \in 1..Len(p) : p[i] = "/"}
        lastDot == CHOOSE i \in dots : \A j \in dots : j <= i
        nameStart == IF seps = {} THEN 1
                     ELSE 1 + CHOOSE i \in seps : \A j \in seps : j <= i
    IN  IF /\ dots # {}
           /\ lastDot >= nameStart
           /\ \E k \in nameStart..(lastDot - 1) : p[k] # "."
        THEN SubSeq(p, lastDot, Len(p))
        ELSE <<>>

lower(s) == [i \in 1..Len(s) |-> LowerChar(s[i])]

EndsInCsv(p) ==
    Len(p) >= 4 /\ lower(SubSeq(p, Len(p) - 3, Len(p))) = <<".", "c", "s", "v">>

\* The last component of the path holds a character other than a dot
HasNamedComponent(p) ==
    LET seps == {i \in 1..Len(p) : p[i] = "/"}
        nameStart == IF seps = {} THEN 1
                     ELSE 1 + CHOOSE i \in seps : \A j \in seps : j <= i
    IN  \E k \in nameStart..Len(p) : p[k] # "."

(* C10, as stated: a path whose extension is .csv in any letter case is    *)
(* used unchanged, any other path gets .csv appended to the whole of it;   *)
(* the result ends in .csv in some letter case, and normalizing it again   *)
(* changes nothing.                                                        *)
C10_Original ==
    (call.fn = "normalize" /\ Len(ret) = 1) =>
        LET p == call.args[1]
            q == ret[1]
        IN  /\ lower(ExtensionOf(p)) = <<".", "c", "s", "v">> => q = p
            /\ lower(ExtensionOf(p)) # <<".", "c", "s", "v">> =>
                  q = p \o <<".", "c", "s", "v">>
            /\ EndsInCsv(q)
            /\ normalize(q) = q

(* C10, amended: as stated, except that normalizing the result again       *)
(* changes nothing only when the last component of the path holds a        *)
(* character other than a dot; for an empty or all-dots last component the *)
(* result has no extension and a second normalization appends .csv again.  *)
C10_Normalization ==
    (call.fn = "normalize" /\ Len(ret) = 1) =>
        LET p == call.args[1]
            q == ret[1]
        IN  /\ lower(ExtensionOf(p)) = <<".", "c", "s", "v">> => q = p
            /\ lower(ExtensionOf(p)) # <<".", "c", "s", "v">> =>
                  q = p \o <<".", "c", "s", "v">>
            /\ EndsInCsv(q)
            /\ HasNamedComponent(p) => normalize(q) = q
            /\ ~HasNamedComponent(p) =>
                  normalize(q) = q \o <<".", "c", "s", "v">>
            /\ p = <<"x">> => q = <<"x", ".", "c", "s", "v">>
            /\ p = <<"x", ".", "c", "s", "v">> => q = p
            /\ p = <<"x", ".", "C", "S", "V">> => q = p
            /\ p = <<"x", ".", "x">> => q = <<"x", ".", "x", ".", "c", "s", "v">>

C10_Witness ==
    /\ call = [fn |-> "normalize", args |-> << <<"x", ".", "C", "S", "V">> >>]
    /\ ret = << <<"x", ".", "C", "S", "V">> >>

\* The validator has just rejected the request: get_samples returned on a
\* False result, or the validator raised and the exception is in flight
Rejected ==
    /\ ~InDomain(options)
    /\ \/ pc = "returned" /\ HasDiag
       \/ pc = "except"

WholeRowsOfPrefix(f) ==
    /\ f.exists
    /\ Len(f.rows) <= Len(sniffed.data)
    /\ \A k \in 1..Len(f.rows) :
          f.rows[k] = ExpectedRow(sniffed.data[k], options.channels.Value)

\* The incomplete last row, if any, is the beginning of the next sample's row
PartialOfNext(f) ==
    f.partial # <<>> =>
        /\ Len(f.rows) < Len(sniffed.data)
        /\ Len(f.partial) <= options.channels.Value
        /\ f.partial =
             SubSeq(ExpectedRow(sniffed.data[Len(f.rows) + 1], options.channels.Value),
                    1, Len(f.partial))

(* C12, as stated: from the moment the file is opened its contents are     *)
(* complete rows of a prefix of the samples, in order, with no partial     *)
(* row, also after a failed write; once closed the file is not changed or  *)
(* deleted by the run.                                                     *)
C12_Original ==
    /\ [][(file_open \/ file_open') =>
            (WholeRowsOfPrefix(fs') /\ fs'.partial = <<>>)]_vars
    /\ [][(~file_open /\ ~file_open') => fs' = fs]_vars

(* C12, amended: from the moment the file is opened its contents are       *)
(* complete rows of a prefix of the samples, in order, followed only after *)
(* a failed write or close by an incomplete copy of the next row; once     *)
(* closed the file is not changed or deleted by the run.                   *)
C12_PrefixOfRows ==
    /\ [][(file_open \/ file_open') =>
            /\ WholeRowsOfPrefix(fs')
            /\ PartialOfNext(fs')
            /\ fs'.partial # <<>> => (~file_open' /\ err' = "OSError")]_vars
    /\ [][(~file_open /\ ~file_open') => fs' = fs]_vars

C12_Witness ==
    /\ pc = "returned"
    /\ err = "OSError"
    /\ sniffed.data = <<5, 0, 255>>
    /\ options.channels = IntV(3)
    /\ fs.exists
    /\ fs.rows = << <<1, 0, 1>> >>
    /\ fs.partial = <<0, 0>>

(* C13: on integers, when params_validator returns False it has emitted   *)
(* exactly one diagnostic, the ERROR of the first violated constraint in   *)
(* the order trigger, samples, samplerate, channels, whatever else is      *)
(* violated; when it returns True it has emitted none.                     *)
C13_OneErrorForFirstViolation ==
    (call.fn = "params_validator" /\ Len(ret) = 1) =>
        LET t == call.args[1].Value
            n == call.args[2].Value
            r == call.args[3].Value
            c == call.args[4].Value
            first == IF t < 0 THEN "trigger"
                     ELSE IF n < 1 \/ n > 131072 THEN "samples"
                     ELSE IF r \notin {1000000, 5000000, 10000000, 18750000}
                     THEN "samplerate"
                     ELSE IF c < 1 \/ c > 8 THEN "channels"
                     ELSE "none"
        IN  /\ ret[1].ret => (first = "none" /\ ret[1].diag = <<>>)
            /\ ~ret[1].ret =>
                  /\ first # "none"
                  /\ ret[1].diag = <<Diag("ERROR", first, <<>>)>>

C13_Witness ==
    /\ call = [fn |-> "params_validator",
               args |-> <<IntV(0), IntV(200000), IntV(3000000), IntV(9)>>]
    /\ Len(ret) = 1
    /\ ~ret[1].ret
    /\ ret[1].diag = <<Diag("ERROR", "samples", <<>>)>>

(* C14: no step of the run changes an option value; sniff is called only  *)
(* for a request inside its domain, with the trigger pin, sample count and *)
(* sample rate of the options as they are (a trigger of 16 is passed as    *)
(* 16); every row written has as many cells as the channels option says.   *)
C14_RequestImmutable ==
    /\ [][options' = options]_vars
    /\ [](sniff_calls >= 1 =>
            /\ InDomain(options)
            /\ sniff_args = <<options.trigger_gpio_pin.Value,
                              options.samples.Value,
                              options.samplerate.Value>>)
    /\ [][(file_open \/ file_open') =>
            /\ \A k \in 1..Len(fs'.rows) :
                  Len(fs'.rows[k]) = options.channels.Value
            /\ Len(fs'.partial) <= options.channels.Value]_vars

C14_Witness ==
    /\ pc = "returned"
    /\ SuccessLogged
    /\ options.trigger_gpio_pin = IntV(16)
    /\ options.channels = IntV(1)
    /\ sniff_args = <<16, 131072, 18750000>>
    /\ fs.rows = << <<1>>, <<1>>, <<0>> >>

\* The phase of the orchestrator at a position of run(). An exception on
\* its way to the handler of line 111 is still in the phase that raised it.
Phase ==
    CASE pc \in {"run", "check_serial", "get_samples"} -> "Idle"
      [] pc = "validate" -> "Validating"
      [] pc \in {"logic_init", "sniff", "sniffing"} -> "Acquiring"
      [] pc \in {"open", "write", "success"} -> "Decoding/Encoding"
      [] pc = "except" ->
            IF open_calls >= 1 THEN "Decoding/Encoding"
            ELSE IF err \in {"LogicError", "SniffError"} THEN "Acquiring"
            ELSE "Validating"
      [] pc = "returned" -> IF SuccessLogged THEN "Done" ELSE "Failed"
      [] OTHER -> "Failed"

NextPhase(ph) ==
    CASE ph = "Idle" -> "Validating"
      [] ph = "Validating" -> "Acquiring"
      [] ph = "Acquiring" -> "Decoding/Encoding"
      [] ph = "Decoding/Encoding" -> "Done"
      [] OTHER -> ph

(* C15: a step of the run leaves the phase as it is, advances it to the    *)
(* next phase of Idle, Validating, Acquiring, Decoding/Encoding, Done, or  *)
(* ends in Failed; no step is taken from Done or Failed; every non-terminal *)
(* phase has a position with a step to failure; the output path is         *)
(* normalized at most once, and exactly once before validation, sniff and  *)
(* open.                                                                   *)
C15_PhasesInOrder ==
    /\ [][/\ Phase \notin {"Done", "Failed"}
          /\ Phase' \in {Phase, NextPhase(Phase), "Failed"}]_vars
    /\ [](normalize_calls <= 1)
    /\ []((Phase \notin {"Idle", "Failed"} \/ sniff_calls >= 1 \/ open_calls >= 1)
            => normalize_calls = 1)
    /\ [](pc = "run" => ENABLED (Connect /\ Phase' = "Failed"))
    /\ []((pc = "validate" /\ ~InDomain(options))
            => ENABLED (Validate /\ pc' # "logic_init"))
    /\ [](pc = "sniffing" => ENABLED (SniffRaise /\ pc' = "except"))
    /\ [](pc = "write" => ENABLED ((WriteRaise \/ CloseFile) /\ pc' = "except"))

C15_Witness ==
    /\ pc = "returned"
    /\ Phase = "Done"
    /\ normalize_calls = 1
    /\ sniff_calls = 1
    /\ open_calls = 1
    /\ output_file # options.output_file
    /\ Len(fs.rows) = 2

Terminated == pc \in {"returned", "raised"}

\* The steps of run() that are not the return of sniff
CoreStep ==
    \/ Connect \/ CheckSerial \/ ReadOptions \/ Validate \/ LogicInit
    \/ SniffCall \/ OpenFile \/ WriteRow \/ WriteRaise \/ CloseFile
    \/ Success \/ HandleException

(* C16: when connect() and sniff come back, every run ends, in Done or in  *)
(* Failed; at every position other than the wait for sniff the run has a   *)
(* step of its own to take; while sniff is awaited the only steps are the  *)
(* return of sniff and the exception of sniff, so that a sniff which never *)
(* comes back leaves the run in Acquiring.                                 *)
C16_OnlySniffBlocks ==
    /\ <>(Terminated /\ Phase \in {"Done", "Failed"})
    /\ [](~Terminated /\ pc # "sniffing" => ENABLED CoreStep)
    /\ [](pc = "sniffing" => Phase = "Acquiring" /\ ~ENABLED CoreStep)
    /\ [][pc = "sniffing" => (SniffReturn \/ SniffRaise)]_vars

C16_Witness ==
    /\ pc = "returned"
    /\ Phase = "Done"
    /\ sniff_calls = 1
    /\ Len(sniffed.data) = MaxSamples
    /\ Len(fs.rows) = MaxSamples

(* C17: when connect() has returned and owf_serial is unset, the run is at *)
(* the test of line 107 or has returned; its only step is the return; the  *)
(* options were not read, the validator, sniff and open were not called,   *)
(* no diagnostic was emitted and no exception raised.                      *)
C17_SilentReturn ==
    (connect_calls = 1 /\ ~owf_serial /\ pc # "raised") =>
        /\ pc \in {"check_serial", "returned"}
        /\ pc = "check_serial" =>
              /\ ENABLED (CheckSerial /\ pc' = "returned")
              /\ ~ENABLED (Next /\ pc' # "returned")
        /\ normalize_calls = 0
        /\ sniff_calls = 0
        /\ open_calls = 0
        /\ ~file_open
        /\ log = <<>>
        /\ err = "none"

C17_Witness ==
    /\ pc = "returned"
    /\ connect_calls = 1
    /\ ~owf_serial
    /\ ~InDomain(options)
    /\ log = <<>>

ErrorLogged == \E i \in 1..Len(log) : log[i].sev = "ERROR"

(* C18: the diagnostics of one run hold at most one SUCCESS and never both *)
(* an ERROR and a SUCCESS; SUCCESS is the last diagnostic of its run; a    *)
(* run in which a step raised emits no SUCCESS.                            *)
C18_SuccessXorFailure ==
    /\ Cardinality({i \in 1..Len(log) : log[i].sev = "SUCCESS"}) <= 1
    /\ ~(ErrorLogged /\ SuccessLogged)
    /\ SuccessLogged => (LastDiag.sev = "SUCCESS" /\ pc = "returned")
    /\ err # "none" => ~SuccessLogged

C18_Witness ==
    /\ pc = "returned"
    /\ err = "OSError"
    /\ ErrorLogged
    /\ ~SuccessLogged
    /\ Len(fs.rows) = 2
    /\ Len(sniffed.data) = 3

=============================================================================
